---- MODULE Spec2Model ----
(***************************************************************************)
(* Model of tensorflow_datasets/core/dataset_builder.py (DatasetBuilder    *)
(* life cycle on a versioned data directory, SplitFiles, SplitGenerator    *)
(* and GeneratorBasedDatasetBuilder) and of                                *)
(* tensorflow_datasets/core/utils/tf_utils.py (TFGraphRunner and           *)
(* assert_shape_match).                                                    *)
(*                                                                         *)
(* Python strings are sequences of code points, so that path joins, the   *)
(* ".incomplete" substring test, strftime and sorted() are computed the    *)
(* way the code computes them.                                             *)
(***************************************************************************)
EXTENDS Integers, Sequences, FiniteSets, TLC

\* ------------------------------------------------------------------ bounds

\* download_and_prepare calls made on one builder
MaxCalls == 3
\* last value of the wall clock, in ticks
MaxClock == 2
\* resolution of the wall clock: ticks per minute (datetime.now() is finer
\* than the minute that strftime keeps)
TicksPerMinute == 2
\* builders constructed on the same root after the first one
MaxBuilders == 1
\* TFGraphRunner.run calls
MaxRuns == 3
\* dimensions of a shape given to assert_shape_match
MaxDims == 3
\* shards of a SplitFiles whose methods are called
MaxShards == 2

\* ------------------------------------------------------------- strings

\* Python's None, a value no string equals
NoneVal == <<-1>>

\* bool(x) of a str-or-None value: None and "" are falsy
Truthy(x) == x # NoneVal /\ x # <<>>

\* ".incomplete"
IncompleteMarker == <<46, 105, 110, 99, 111, 109, 112, 108, 101, 116, 101>>

\* sub in s
Contains(sub, s) ==
    \E i \in 1..(Len(s) - Len(sub) + 1) : SubSeq(s, i, i + Len(sub) - 1) = sub

\* a < b for Python str: code point by code point, a proper prefix is smaller
RECURSIVE StrLess(_, _)
StrLess(a, b) ==
    IF b = <<>> THEN FALSE
    ELSE IF a = <<>> THEN TRUE
    ELSE IF Head(a) # Head(b) THEN Head(a) < Head(b)
    ELSE StrLess(Tail(a), Tail(b))

\* sorted(names): ascending list of the entries of a directory listing
RECURSIVE sorted(_)
sorted(S) ==
    IF S = {} THEN <<>>
    ELSE LET m == CHOOSE x \in S : \A y \in S : y = x \/ StrLess(x, y)
         IN  <<m>> \o sorted(S \ {m})

\* os.path.join(a, b) for a relative b
PathJoin(a, b) == a \o <<47>> \o b

\* two decimal digits, zero padded (%H, %M)
Digits2(n) == <<48 + (n \div 10), 48 + (n % 10)>>

\* curr_date.strftime("v_%Y%m%d_%H%M"): the clock counts ticks from
\* 2018-06-01 12:00:00 and stays within that day
strftime(t) ==
    LET minute == t \div TicksPerMinute
    IN  <<118, 95, 50, 48, 49, 56, 48, 54, 48, 49, 95>>
            \o Digits2(12 + (minute \div 60)) \o Digits2(minute % 60)

\* ------------------------------------------------------------ constants

\* self._data_dir_root: "/tfds"
_data_dir_root == <<47, 116, 102, 100, 115>>
\* self.name: "mnist"
name == <<109, 110, 105, 115, 116>>
\* a caller's cache_dir: "cache"
SomeCacheDir == <<99, 97, 99, 104, 101>>

GenerateModes == {"REUSE_DATASET_IF_EXISTS", "FORCE_REDOWNLOAD"}

\* entries the dataset directory may hold before the first builder is made,
\* all older than the clock's first minute: "v_20180101_0000",
\* "v_20180601_1159", "v_20180601_1159.incomplete" and
\* "v_20180101_0000.incomplete.bak" (the last one carries the marker inside)
OldVersion == <<118, 95, 50, 48, 49, 56, 48, 49, 48, 49, 95, 48, 48, 48, 48>>
LastVersion == <<118, 95, 50, 48, 49, 56, 48, 54, 48, 49, 95, 49, 49, 53, 57>>
Marked == LastVersion \o IncompleteMarker
Backup == OldVersion \o IncompleteMarker \o <<46, 98, 97, 107>>
InitListings ==
    { {}, {OldVersion}, {Marked}, {OldVersion, LastVersion, Marked},
      {LastVersion, Backup} }

VARIABLES
    clock,       \* wall clock, in ticks
    rootExists,  \* tf.gfile.Exists(<root>/<name>)
    fs,          \* tf.gfile.ListDirectory(<root>/<name>): set of entry names
    _data_dir,    \* self._data_dir
    pc,          \* "idle", or "hook" while _download_and_prepare runs
    hookStep,    \* position inside _download_and_prepare
    cur,         \* the download_and_prepare call in progress
    last,        \* the last call the current builder completed
    prev,        \* what the call before it did
    ncalls,      \* how many calls were made on the current builder
    builders,    \* builders constructed after the first
    \* TFGraphRunner
    eager,            \* tf.executing_eagerly()
    fcts,             \* the live function objects: object -> id(object), 0 if dead
    _graph_run_cache,  \* self._graph_run_cache: signature -> GraphRun
    sessions,         \* tf.Session() objects created so far
    nruns,            \* run calls made
    seen,             \* (id, dtype, shape) of every deferred-mode run so far
    served,           \* those of the runs that had an execution context
    first,            \* the GraphRun first built for each of them
    lastRun,          \* the last run call
    closed,           \* the sessions that were closed
    discarded,        \* the runner was discarded: __del__ ran
    \* assert_shape_match
    shape1, shape2,   \* its arguments
    raised,           \* "pending", or what the call raised: "none", "ValueError"
    message,          \* the message of the error raised
    \* GeneratorBasedDatasetBuilder
    subclass,          \* the concrete builder
    files,             \* the shard files that exist
    gpc,               \* position in _download_and_prepare, lines 448-454
    split_generators,  \* what _dataset_split_generators returned
    gi,                \* the split generator the loop is at
    visits,            \* output_files_exist() of the generators visited,
                       \* with exists() of each of their split files
    writes,            \* the calls of write_from_generator made
    probe,             \* the last SplitFiles whose methods were called
    read               \* the last as_dataset call

builderVars == <<clock, rootExists, fs, _data_dir, pc, hookStep, cur, last, prev,
                 ncalls, builders>>
runnerVars == <<eager, fcts, _graph_run_cache, sessions, nruns, seen, served,
                first, lastRun, closed, discarded>>
shapeVars == <<shape1, shape2, raised, message>>
genVars == <<subclass, files, gpc, split_generators, gi, visits, writes, probe,
             read>>
vars == <<builderVars, runnerVars, shapeVars, genVars>>

\* ------------------------------------------------------- DatasetBuilder

data_root_dir == PathJoin(_data_dir_root, name)

\* the entry name of a path directly under data_root_dir
Basename(path) == SubSeq(path, Len(data_root_dir) + 2, Len(path))

\* tf.gfile.Exists(path) for a path directly under data_root_dir
Exists(path) == Basename(path) \in fs

\* the filter of _get_data_dir: ".incomplete" not in f
NotIncomplete(f) == ~Contains(IncompleteMarker, f)

\* _get_data_dir taking version_dirnames[0] where the code takes [-1]
_get_data_dir_First(version, root_exists, listing) ==
    IF version # NoneVal
    THEN PathJoin(data_root_dir, version)
    ELSE IF root_exists
         THEN LET version_dirnames == SelectSeq(sorted(listing), NotIncomplete)
              IN  IF version_dirnames # <<>>
                  THEN PathJoin(data_root_dir, version_dirnames[1])
                  ELSE NoneVal
         ELSE NoneVal

\* DatasetBuilder._get_data_dir(version)
_get_data_dir(version, root_exists, listing) ==
    IF version # NoneVal
    THEN PathJoin(data_root_dir, version)
    ELSE IF root_exists
         THEN LET version_dirnames == SelectSeq(sorted(listing), NotIncomplete)
              IN  IF version_dirnames # <<>>
                  THEN PathJoin(data_root_dir,
                                version_dirnames[Len(version_dirnames)])
                  ELSE NoneVal
         ELSE NoneVal

\* file_format_adapter.incomplete_dir: the path generation runs under, the
\* ".incomplete"-suffixed sibling of the final path
incomplete_path(dirname) == dirname \o IncompleteMarker

\* incomplete_dir on normal exit: the temporary directory is promoted to the
\* final path in one step
Promote(listing, dirname) ==
    (listing \ {Basename(incomplete_path(dirname))}) \cup {Basename(dirname)}

\* incomplete_dir on error: the temporary directory is left or discarded,
\* never promoted
Abandon(listing, dirname, discard) ==
    IF discard THEN listing \ {Basename(incomplete_path(dirname))} ELSE listing

\* the version directories of a listing, as _get_data_dir tells them apart
VersionDirs(listing) == {f \in listing : NotIncomplete(f)}

\* ------------------------------------------------ Split and SplitFiles

\* Split.TRAIN, Split.VALIDATION, Split.TEST
TRAIN == <<116, 114, 97, 105, 110>>
VALIDATION == <<118, 97, 108, 105, 100, 97, 116, 105, 111, 110>>
TEST == <<116, 101, 115, 116>>
Split == {TRAIN, VALIDATION, TEST}

\* None as a number of shards
NoneShards == -1

\* self._file_format_adapter.filetype_suffix: "tfrecord"
filetype_suffix == <<116, 102, 114, 101, 99, 111, 114, 100>>

\* what a call gives back: a value, or the error it raised
Returned(v) == [error |-> "none", value |-> v]
Raised(e, v) == [error |-> e, value |-> v]

\* "%05d" of a shard index or a shard count
Digits5(n) == <<48, 48, 48>> \o Digits2(n)

\* naming: <data_dir>/<dataset_name>-<split>, then .<suffix> when one is given
filepath_prefix(dataset_name, split, data_dir, suffix) ==
    PathJoin(data_dir, dataset_name \o <<45>> \o split)
        \o (IF Truthy(suffix) THEN <<46>> \o suffix ELSE <<>>)

\* naming.filepaths_for_dataset_split: num_shards paths ending in
\* -<shard_index:05d>-of-<num_shards:05d>; concrete paths need a shard count
filepaths_for_dataset_split(dataset_name, split, num_shards, data_dir, suffix) ==
    IF num_shards = NoneShards THEN Raised("InvalidState", <<>>)
    ELSE IF num_shards <= 0 THEN Raised("InvalidArgument", <<>>)
    ELSE IF data_dir = NoneVal THEN Raised("TypeError", <<>>)
    ELSE Returned([i \in 1..num_shards |->
                     filepath_prefix(dataset_name, split, data_dir, suffix)
                         \o <<45>> \o Digits5(i - 1)
                         \o <<45, 111, 102, 45>> \o Digits5(num_shards)])

\* naming.filepattern_for_dataset_split: the same name with a wildcard for
\* the shard index and count
filepattern_for_dataset_split(dataset_name, split, data_dir, suffix) ==
    IF data_dir = NoneVal THEN Raised("TypeError", <<>>)
    ELSE Returned(filepath_prefix(dataset_name, split, data_dir, suffix)
                      \o <<42>>)

\* file_format_adapter.do_files_exist(filepaths) on the files that exist
do_files_exist(paths, existing) ==
    \A i \in 1..Len(paths) : paths[i] \in existing

\* SplitFiles.__init__
SplitFiles(dataset_name, split, num_shards, data_dir, suffix) ==
    [dataset_name |-> dataset_name, split |-> split, num_shards |-> num_shards,
     data_dir |-> data_dir, filetype_suffix |-> suffix]

\* SplitFiles.filepaths
filepaths(sf) ==
    filepaths_for_dataset_split(sf.dataset_name, sf.split, sf.num_shards,
                                sf.data_dir, sf.filetype_suffix)

\* SplitFiles.filepattern
filepattern(sf) ==
    filepattern_for_dataset_split(sf.dataset_name, sf.split, sf.data_dir,
                                  sf.filetype_suffix)

\* SplitFiles.exists answering from the pattern, without the exact paths
exists_FromPattern(sf, existing) ==
    LET pattern == filepattern(sf)
    IN  IF pattern.error # "none" THEN Raised(pattern.error, FALSE)
        ELSE Returned(\E f \in existing :
                        /\ Len(f) >= Len(pattern.value) - 1
                        /\ SubSeq(f, 1, Len(pattern.value) - 1)
                               = SubSeq(pattern.value, 1, Len(pattern.value) - 1))

\* SplitFiles.exists
exists(sf, existing) ==
    LET paths == filepaths(sf)
    IN  IF paths.error # "none" THEN Raised(paths.error, FALSE)
        ELSE Returned(do_files_exist(paths.value, existing))

\* line 466 taking the latest version directory instead of self._data_dir
_split_files_Latest(dd, split, num_shards) ==
    SplitFiles(name, split, num_shards, _get_data_dir(NoneVal, rootExists, fs),
               filetype_suffix)

\* GeneratorBasedDatasetBuilder._split_files(split=..., num_shards=...)
_split_files(dd, split, num_shards) ==
    SplitFiles(name, split, num_shards, dd, filetype_suffix)

\* ------------------------------------------------------ SplitGenerator

\* SplitGenerator(generator_fn=..., split_files=[...])
SplitGenerator(generator_fn, split_files) ==
    [generator_fn |-> generator_fn, split_files |-> split_files]

\* the first error of a list of results, in list order
FirstError(results) ==
    LET failed == {i \in DOMAIN results : results[i].error # "none"}
    IN  IF failed = {} THEN "none"
        ELSE results[CHOOSE i \in failed : \A j \in failed : i <= j].error

\* output_files_exist with any() where the code has all()
output_files_exist_Any(sg, existing) ==
    LET results == [i \in DOMAIN sg.split_files |->
                      exists(sg.split_files[i], existing)]
    IN  IF FirstError(results) # "none"
        THEN Raised(FirstError(results), FALSE)
        ELSE Returned(\E i \in DOMAIN results : results[i].value)

\* SplitGenerator.output_files_exist: all([split.exists() for split in ...])
output_files_exist(sg, existing) ==
    LET results == [i \in DOMAIN sg.split_files |->
                      exists(sg.split_files[i], existing)]
    IN  IF FirstError(results) # "none"
        THEN Raised(FirstError(results), FALSE)
        ELSE Returned(\A i \in DOMAIN results : results[i].value)

\* output_files putting each descriptor's paths before the ones collected
RECURSIVE output_files_Prepend(_)
output_files_Prepend(sg) ==
    IF sg.split_files = <<>> THEN Returned(<<>>)
    ELSE LET first_paths == filepaths(Head(sg.split_files))
             rest == output_files_Prepend([sg EXCEPT !.split_files = Tail(@)])
         IN  IF first_paths.error # "none" THEN Raised(first_paths.error, <<>>)
             ELSE IF rest.error # "none" THEN rest
             ELSE Returned(rest.value \o first_paths.value)

\* SplitGenerator.output_files: extend() with each split's filepaths in turn
RECURSIVE output_files(_)
output_files(sg) ==
    IF sg.split_files = <<>> THEN Returned(<<>>)
    ELSE LET first_paths == filepaths(Head(sg.split_files))
             rest == output_files([sg EXCEPT !.split_files = Tail(@)])
         IN  IF first_paths.error # "none" THEN Raised(first_paths.error, <<>>)
             ELSE IF rest.error # "none" THEN rest
             ELSE Returned(first_paths.value \o rest.value)

\* SplitGenerator.splits
splits(sg) == [i \in DOMAIN sg.split_files |-> sg.split_files[i].split]

\* ------------------------------------- GeneratorBasedDatasetBuilder

\* the concrete builders: what each one's _dataset_split_generators returns
\* for the data directory dd it is called under
Subclasses ==
    {"fan_out", "per_split", "overlapping", "same_files", "unknown_shards"}

\* _dataset_split_generators of a concrete builder, every SplitFiles made
\* with self._split_files
_dataset_split_generators(cls, dd) ==
    CASE cls = "fan_out" ->
           <<SplitGenerator("gen_all", <<_split_files(dd, TRAIN, 2),
                                         _split_files(dd, VALIDATION, 1),
                                         _split_files(dd, TEST, 1)>>)>>
      [] cls = "per_split" ->
           <<SplitGenerator("gen_train", <<_split_files(dd, TRAIN, 2)>>),
             SplitGenerator("gen_test", <<_split_files(dd, TEST, 1)>>)>>
      [] cls = "overlapping" ->
           <<SplitGenerator("gen_train", <<_split_files(dd, TRAIN, 1)>>),
             SplitGenerator("gen_all", <<_split_files(dd, TRAIN, 1),
                                         _split_files(dd, TEST, 1)>>)>>
      [] cls = "same_files" ->
           <<SplitGenerator("gen_a", <<_split_files(dd, TEST, 1)>>),
             SplitGenerator("gen_b", <<_split_files(dd, TEST, 1)>>)>>
      [] cls = "unknown_shards" ->
           <<SplitGenerator("gen_test", <<_split_files(dd, TEST, 1)>>),
             SplitGenerator("gen_train",
                            <<_split_files(dd, TRAIN, NoneShards)>>)>>

\* the set of the elements of a sequence
Range(seq) == {seq[i] : i \in DOMAIN seq}

\* no call of write_from_generator
NoWrite == [generator_fn |-> "none", output_files |-> <<>>]

\* lines 449-452 skipping a generator whose files do not exist
SkipGenerator_Inverted(there) == ~there

\* _download_and_prepare, lines 449-452: the generator is skipped
SkipGenerator(there) == there

\* _download_and_prepare, lines 449-454: the body of the loop for one split
\* generator, write_from_generator returning after it wrote every file
Visit(sg, existing) ==
    LET there == output_files_exist(sg, existing)
        each == [i \in DOMAIN sg.split_files |->
                   exists(sg.split_files[i], existing).value]
        out == output_files(sg)
    IN  IF there.error # "none"
        THEN [error |-> there.error, existed |-> FALSE, each |-> each,
              call |-> NoWrite, files |-> existing]
        ELSE IF SkipGenerator(there.value)
        THEN [error |-> "none", existed |-> there.value, each |-> each,
              call |-> NoWrite, files |-> existing]
        ELSE IF out.error # "none"
        THEN [error |-> out.error, existed |-> there.value, each |-> each,
              call |-> NoWrite, files |-> existing]
        ELSE [error |-> "none", existed |-> there.value, each |-> each,
              call |-> [generator_fn |-> sg.generator_fn,
                        output_files |-> out.value],
              files |-> existing \cup Range(out.value)]

\* _download_and_prepare, lines 448-454: the calls of write_from_generator
\* the loop makes when no call raises
RECURSIVE WriteCalls(_, _)
WriteCalls(sgs, existing) ==
    IF sgs = <<>> THEN <<>>
    ELSE LET v == Visit(Head(sgs), existing)
         IN  (IF v.call = NoWrite THEN <<>> ELSE <<v.call>>)
                 \o WriteCalls(Tail(sgs), v.files)

\* the files the subclass's generators may find in a data directory
PotentialFiles(cls, dd) ==
    UNION { Range(output_files(sg).value) :
              sg \in Range(_dataset_split_generators(cls, dd)) }

\* the builder of the life cycle
TheSubclass == "per_split"

NoCall ==
    [cache_dir |-> NoneVal, dl_manager |-> "None", mode |-> "None",
     dmBuilt |-> FALSE, target |-> NoneVal, hook |-> FALSE,
     hooks |-> 0, propagated |-> FALSE, fresh |-> FALSE, handed |-> <<>>,
     nBefore |-> 0, fsBefore |-> {}, ddBefore |-> NoneVal,
     outcome |-> "none", incompleteLeft |-> FALSE,
     fsSame |-> TRUE, ddSame |-> TRUE]

NoPrev ==
    [mode |-> "None", outcome |-> "none", nBefore |-> 0,
     incompleteLeft |-> FALSE]

\* a call as it starts
Started(cache_dir, dl_manager, mode, dmBuilt) ==
    [NoCall EXCEPT !.cache_dir = cache_dir, !.dl_manager = dl_manager,
                   !.mode = mode, !.dmBuilt = dmBuilt,
                   !.nBefore = Cardinality(VersionDirs(fs)),
                   !.fsBefore = fs, !.ddBefore = _data_dir,
                   !.outcome = "running"]

\* a call as it ends, given the listing and the _data_dir it leaves
Finished(c, outcome, listing, dd) ==
    [c EXCEPT !.outcome = outcome,
              !.incompleteLeft =
                  /\ c.target # NoneVal
                  /\ Basename(incomplete_path(c.target)) \in listing,
              !.fsSame = (listing = c.fsBefore),
              !.ddSame = (dd = c.ddBefore),
              !.fsBefore = {}, !.ddBefore = NoneVal,
              !.fresh = FALSE, !.handed = <<>>]

Summary(c) ==
    [mode |-> c.mode, outcome |-> c.outcome, nBefore |-> c.nBefore,
     incompleteLeft |-> c.incompleteLeft]

\* the mode of the manager the call uses: the caller's, or the one of the
\* DownloadManager(cache_dir=...) the call constructs
ManagerModes(dl_manager) ==
    IF dl_manager # "None" THEN {dl_manager} ELSE GenerateModes

\* DatasetBuilder.__init__
BuilderInit ==
    /\ clock = 0
    /\ rootExists \in BOOLEAN
    /\ fs \in InitListings
    /\ fs # {} => rootExists
    /\ _data_dir = _get_data_dir(NoneVal, rootExists, fs)
    /\ pc = "idle"
    /\ hookStep = "none"
    /\ cur = NoCall
    /\ last = NoCall
    /\ prev = NoPrev
    /\ ncalls = 0
    /\ builders = 0

\* a second builder constructed on the same root
Construct ==
    /\ UNCHANGED <<runnerVars, shapeVars, genVars>>
    /\ pc = "idle"
    /\ builders < MaxBuilders
    /\ builders' = builders + 1
    /\ _data_dir' = _get_data_dir(NoneVal, rootExists, fs)
    /\ last' = NoCall
    /\ prev' = NoPrev
    /\ ncalls' = 0
    /\ UNCHANGED <<clock, rootExists, fs, pc, hookStep, cur>>

\* time passes
Tick ==
    /\ UNCHANGED <<runnerVars, shapeVars, genVars>>
    /\ clock < MaxClock
    /\ clock' = clock + 1
    /\ UNCHANGED <<rootExists, fs, _data_dir, pc, hookStep, cur, last, prev,
                   ncalls, builders>>

\* download_and_prepare, lines 168-170: both arguments set
RaiseValueError(cache_dir, dl_manager) ==
    /\ last' = Finished(Started(cache_dir, dl_manager, "None", FALSE),
                        "ValueError", fs, _data_dir)
    /\ prev' = Summary(last)
    /\ UNCHANGED <<clock, rootExists, fs, _data_dir, pc, hookStep, cur, builders>>

\* download_and_prepare, lines 181-184: the reuse short-circuit
Reuse(c) ==
    /\ last' = Finished(c, "reused", fs, _data_dir)
    /\ prev' = Summary(last)
    /\ UNCHANGED <<clock, rootExists, fs, _data_dir, pc, hookStep, cur, builders>>

\* lines 186-197 with line 198 (self._data_dir = data_dir) moved before the hook
Generate_Exposed(c) ==
    LET version_str == strftime(clock)
        data_dir == PathJoin(data_root_dir, version_str)
    IN  /\ _data_dir' = data_dir
        /\ pc' = "hook"
        /\ hookStep' = "start"
        /\ cur' = [c EXCEPT !.target = data_dir, !.hook = TRUE,
                             !.hooks = c.hooks + 1]
        /\ UNCHANGED <<clock, rootExists, fs, last, prev, builders>>

\* download_and_prepare, lines 186-197: up to the call of the hook
Generate(c) ==
    LET version_str == strftime(clock)
        data_dir == _get_data_dir(version_str, rootExists, fs)
        data_dir_tmp == incomplete_path(data_dir)
    IN  /\ _data_dir' = data_dir_tmp
        /\ pc' = "hook"
        /\ hookStep' = "start"
        /\ cur' = [c EXCEPT !.target = data_dir, !.hook = TRUE,
                             !.hooks = c.hooks + 1]
        /\ UNCHANGED <<clock, rootExists, fs, last, prev, builders>>

\* the test of line 169 with "is not None" written "is None"
BothSet_IsNone(cache_dir, dl_manager) == Truthy(cache_dir) /\ dl_manager = "None"

\* download_and_prepare, line 169: both arguments are set
BothSet(cache_dir, dl_manager) == Truthy(cache_dir) /\ dl_manager # "None"

\* the test of lines 181-182 with the comparison of the mode inverted
ReuseExisting_Inverted(dd, mode) ==
    Truthy(dd) /\ mode # "REUSE_DATASET_IF_EXISTS"

\* download_and_prepare, lines 181-182: the dataset exists and is reused
ReuseExisting(dd, mode) == Truthy(dd) /\ mode = "REUSE_DATASET_IF_EXISTS"

\* DatasetBuilder.download_and_prepare(cache_dir, dl_manager)
download_and_prepare(cache_dir, dl_manager) ==
    /\ UNCHANGED <<runnerVars, shapeVars, genVars>>
    /\ pc = "idle"
    /\ ncalls < MaxCalls
    /\ ncalls' = ncalls + 1
    /\ IF BothSet(cache_dir, dl_manager)
       THEN RaiseValueError(cache_dir, dl_manager)
       ELSE \E mode \in ManagerModes(dl_manager) :
              LET c == Started(cache_dir, dl_manager, mode, dl_manager = "None")
              IN  IF ReuseExisting(_data_dir, mode)
                  THEN Reuse(c)
                  ELSE Generate(c)

\* GeneratorBasedDatasetBuilder._download_and_prepare, lines 446-447
_download_and_prepare_MakeDirs ==
    /\ UNCHANGED <<runnerVars, shapeVars, genVars>>
    /\ pc = "hook"
    /\ hookStep = "start"
    /\ hookStep' = "dirs"
    /\ IF ~(rootExists /\ Exists(_data_dir))
       THEN /\ fs' = fs \cup {Basename(_data_dir)}
            /\ rootExists' = TRUE
            /\ cur' = [cur EXCEPT !.fresh = TRUE]
       ELSE UNCHANGED <<fs, rootExists, cur>>
    /\ UNCHANGED <<clock, _data_dir, pc, last, prev, ncalls, builders>>

\* GeneratorBasedDatasetBuilder._download_and_prepare, lines 448-454: the
\* loop over the split generators, on a directory that is empty when line
\* 447 made it, and holds none or all of the generators' files when it was
\* there
_download_and_prepare_Write ==
    /\ UNCHANGED <<runnerVars, shapeVars, genVars>>
    /\ pc = "hook"
    /\ hookStep = "dirs"
    /\ hookStep' = "written"
    /\ \E existing \in {{}, PotentialFiles(TheSubclass, _data_dir)} :
         /\ cur.fresh => existing = {}
         /\ cur' = [cur EXCEPT !.handed =
                        WriteCalls(_dataset_split_generators(TheSubclass,
                                                             _data_dir),
                                   existing)]
    /\ UNCHANGED <<clock, rootExists, fs, _data_dir, pc, last, prev, ncalls,
                   builders>>

\* the hook returns: line 198, then incomplete_dir promotes the directory
_download_and_prepare_Return ==
    /\ UNCHANGED <<runnerVars, shapeVars, genVars>>
    /\ pc = "hook"
    /\ hookStep = "written"
    /\ _data_dir' = cur.target
    /\ fs' = Promote(fs, cur.target)
    /\ pc' = "idle"
    /\ hookStep' = "none"
    /\ cur' = NoCall
    /\ last' = Finished(cur, "ok", fs', _data_dir')
    /\ prev' = Summary(last)
    /\ UNCHANGED <<clock, rootExists, ncalls, builders>>

\* the errors the hook may raise
HookErrors == {"IOError"}

\* what leaves the with block of lines 193-198 when its body raised err:
\* incomplete_dir cleans up and lets the error through
Propagate(err) == err

\* the hook raised err: the with block is left with what incomplete_dir lets
\* through, before line 198; the directory is left or discarded
HookRaised(err) ==
    /\ \E discard \in BOOLEAN : fs' = Abandon(fs, cur.target, discard)
    /\ pc' = "idle"
    /\ hookStep' = "none"
    /\ cur' = NoCall
    /\ last' = Finished([cur EXCEPT !.propagated = (Propagate(err) = err)],
                        "raised", fs', _data_dir)
    /\ prev' = Summary(last)
    /\ UNCHANGED <<clock, rootExists, _data_dir, ncalls, builders>>

\* line 197 wrapped in a retry: a first failure of the hook invokes it again
_download_and_prepare_Raise_Retry ==
    /\ UNCHANGED <<runnerVars, shapeVars, genVars>>
    /\ pc = "hook"
    /\ \E err \in HookErrors :
         IF cur.hooks < 2
         THEN /\ hookStep' = "start"
              /\ cur' = [cur EXCEPT !.hooks = @ + 1]
              /\ UNCHANGED <<clock, rootExists, fs, _data_dir, pc, last, prev,
                             ncalls, builders>>
         ELSE HookRaised(err)

\* download_and_prepare, line 197: the hook raises
_download_and_prepare_Raise ==
    /\ UNCHANGED <<runnerVars, shapeVars, genVars>>
    /\ pc = "hook"
    /\ \E err \in HookErrors : HookRaised(err)

BuilderNext ==
    \/ Tick
    \/ Construct
    \/ \E cache_dir \in {NoneVal, <<>>, SomeCacheDir} :
         \E dl_manager \in {"None"} \cup GenerateModes :
           download_and_prepare(cache_dir, dl_manager)
    \/ _download_and_prepare_MakeDirs
    \/ _download_and_prepare_Write
    \/ _download_and_prepare_Return
    \/ _download_and_prepare_Raise

\* a builder on an empty root that is left alone
BuilderAtRest ==
    /\ clock = 0
    /\ rootExists = FALSE
    /\ fs = {}
    /\ _data_dir = NoneVal
    /\ pc = "idle"
    /\ hookStep = "none"
    /\ cur = NoCall
    /\ last = NoCall
    /\ prev = NoPrev
    /\ ncalls = 0
    /\ builders = 0

\* as_dataset's shuffle_files argument: None, True or False
ShuffleArgs == {"None", "True", "False"}

\* lines 461-462 without the test for None
ShuffleFlag_Explicit(split, shuffle_files) == shuffle_files = "True"

\* _as_dataset, lines 461-462: the shuffle_files given to build_dataset
ShuffleFlag(split, shuffle_files) ==
    IF shuffle_files = "None" THEN split = TRAIN ELSE shuffle_files = "True"

\* no call of dataset_utils.build_dataset
NotBuilt ==
    [error |-> "none", called |-> FALSE, filepattern |-> <<>>,
     shuffle_files |-> FALSE]

\* GeneratorBasedDatasetBuilder._as_dataset: the call of build_dataset
_as_dataset(dd, split, shuffle_files) ==
    LET pattern == filepattern(_split_files(dd, split, NoneShards))
    IN  IF pattern.error # "none"
        THEN [NotBuilt EXCEPT !.error = pattern.error]
        ELSE [error |-> "none", called |-> TRUE,
              filepattern |-> pattern.value,
              shuffle_files |-> ShuffleFlag(split, shuffle_files)]

NoRead == [split |-> <<>>, shuffle_files |-> "none", built |-> NotBuilt]

NoProbe ==
    [num_shards |-> 0, split |-> <<>>, filepaths |-> "none", exists |-> "none",
     filepattern |-> "none", pattern |-> <<>>]

\* the loop of the hook has not started, no method was called
GenAtRest ==
    /\ subclass = "per_split"
    /\ files = {}
    /\ gpc = "idle"
    /\ split_generators = <<>>
    /\ gi = 0
    /\ visits = <<>>
    /\ writes = <<>>
    /\ probe = NoProbe
    /\ read = NoRead

\* a concrete builder and the files of its data directory
GenInit ==
    /\ subclass \in Subclasses
    /\ files \in SUBSET (IF _data_dir = NoneVal THEN {}
                         ELSE PotentialFiles(subclass, _data_dir))
    /\ (pc = "hook" /\ cur.fresh) => files = {}
    /\ gpc = "idle"
    /\ split_generators = <<>>
    /\ gi = 0
    /\ visits = <<>>
    /\ writes = <<>>
    /\ probe = NoProbe
    /\ read = NoRead

\* the version the builder's first call makes
FirstTarget == _get_data_dir(strftime(0), FALSE, {})

\* a builder inside the hook of its first call, after lines 446-447
BuilderInHook ==
    /\ clock = 0
    /\ rootExists = TRUE
    /\ fs = {Basename(incomplete_path(FirstTarget))}
    /\ _data_dir = incomplete_path(FirstTarget)
    /\ pc = "hook"
    /\ hookStep = "dirs"
    /\ \E fresh \in BOOLEAN :
         cur = [NoCall EXCEPT !.mode = "REUSE_DATASET_IF_EXISTS",
                              !.dmBuilt = TRUE, !.target = FirstTarget,
                              !.hook = TRUE, !.hooks = 1, !.fresh = fresh,
                              !.outcome = "running"]
    /\ last = NoCall
    /\ prev = NoPrev
    /\ ncalls = 1
    /\ builders = 0

\* a builder whose first call returned
BuilderPrepared ==
    /\ clock = 0
    /\ rootExists = TRUE
    /\ fs = {Basename(FirstTarget)}
    /\ _data_dir = FirstTarget
    /\ pc = "idle"
    /\ hookStep = "none"
    /\ cur = NoCall
    /\ last = [NoCall EXCEPT !.mode = "REUSE_DATASET_IF_EXISTS",
                             !.dmBuilt = TRUE, !.target = FirstTarget,
                             !.hook = TRUE, !.hooks = 1, !.outcome = "ok",
                             !.fsSame = FALSE, !.ddSame = FALSE]
    /\ prev = NoPrev
    /\ ncalls = 1
    /\ builders = 0

\* lines 448: the subclass gives its split generators
_download_and_prepare_Generators ==
    /\ UNCHANGED <<builderVars, runnerVars, shapeVars>>
    /\ pc = "hook"
    /\ gpc = "idle"
    /\ split_generators' = _dataset_split_generators(subclass, _data_dir)
    /\ gi' = 1
    /\ gpc' = "loop"
    /\ UNCHANGED <<subclass, files, visits, writes, probe, read>>

\* lines 449-454: one pass of the loop, write_from_generator returning
_download_and_prepare_Visit ==
    /\ UNCHANGED <<builderVars, runnerVars, shapeVars>>
    /\ gpc = "loop"
    /\ gi <= Len(split_generators)
    /\ LET v == Visit(split_generators[gi], files)
       IN  IF v.error # "none"
           THEN /\ gpc' = "raised"
                /\ UNCHANGED <<files, gi, visits, writes>>
           ELSE /\ visits' = Append(visits, [existed |-> v.existed,
                                            each |-> v.each])
                /\ writes' = IF v.call = NoWrite THEN writes
                             ELSE Append(writes, [at |-> gi, call |-> v.call])
                /\ files' = v.files
                /\ gi' = gi + 1
                /\ UNCHANGED gpc
    /\ UNCHANGED <<subclass, split_generators, probe, read>>

\* lines 453-454: write_from_generator raises after it wrote some of the files
_download_and_prepare_WriteRaises ==
    /\ UNCHANGED <<builderVars, runnerVars, shapeVars>>
    /\ gpc = "loop"
    /\ gi <= Len(split_generators)
    /\ LET v == Visit(split_generators[gi], files)
       IN  /\ v.call # NoWrite
           /\ visits' = Append(visits, [existed |-> v.existed,
                                            each |-> v.each])
           /\ writes' = Append(writes, [at |-> gi, call |-> v.call])
           /\ \E k \in 0..Len(v.call.output_files) :
                files' = files \cup Range(SubSeq(v.call.output_files, 1, k))
    /\ gpc' = "raised"
    /\ UNCHANGED <<subclass, split_generators, gi, probe, read>>

\* the loop is over: the hook returns
_download_and_prepare_Done ==
    /\ UNCHANGED <<builderVars, runnerVars, shapeVars>>
    /\ gpc = "loop"
    /\ gi > Len(split_generators)
    /\ gpc' = "returned"
    /\ UNCHANGED <<subclass, files, split_generators, gi, visits, writes, probe,
                   read>>

\* DatasetBuilder.as_dataset(split=..., shuffle_files=...)
as_dataset(split, shuffle_files) ==
    /\ UNCHANGED <<builderVars, runnerVars, shapeVars>>
    /\ pc = "idle"
    /\ read' = [split |-> split, shuffle_files |-> shuffle_files,
                built |-> _as_dataset(_data_dir, split, shuffle_files)]
    /\ UNCHANGED <<subclass, files, gpc, split_generators, gi, visits, writes,
                   probe>>

\* the methods of self._split_files(split=..., num_shards=...) are called
SplitFiles_methods(split, num_shards) ==
    /\ UNCHANGED <<builderVars, runnerVars, shapeVars>>
    /\ pc = "idle"
    /\ LET sf == _split_files(_data_dir, split, num_shards)
       IN  probe' = [num_shards |-> num_shards, split |-> split,
                     filepaths |-> filepaths(sf).error,
                     exists |-> exists(sf, files).error,
                     filepattern |-> filepattern(sf).error,
                     pattern |-> filepattern(sf).value]
    /\ UNCHANGED <<subclass, files, gpc, split_generators, gi, visits, writes,
                   read>>

GenNext ==
    \/ _download_and_prepare_Generators
    \/ _download_and_prepare_Visit
    \/ _download_and_prepare_WriteRaises
    \/ _download_and_prepare_Done
    \/ \E split \in Split : \E shuffle_files \in ShuffleArgs :
         as_dataset(split, shuffle_files)
    \/ \E split \in Split : \E num_shards \in {NoneShards} \cup 0..MaxShards :
         SplitFiles_methods(split, num_shards)

\* -------------------------------------------------------- TFGraphRunner

Fcts == {"f", "g"}
Ids == {1, 2}
DTypes == {"float32", "int64"}
InputShapes == {<<5>>, <<2, 3>>}

NoGraphRun == [fct |-> "none", dtype |-> "none", shape |-> <<>>, session |-> 0]

NoRun ==
    [fct |-> "none", id |-> 0, dtype |-> "none", shape |-> <<>>,
     outcome |-> "none",
     sizeBefore |-> 0, wasSeen |-> FALSE, wasServed |-> FALSE,
     used |-> NoGraphRun]

\* TFGraphRunner.__init__
RunnerInit ==
    /\ eager \in BOOLEAN
    /\ fcts = [f \in Fcts |-> 0]
    /\ _graph_run_cache = <<>>
    /\ sessions = 0
    /\ nruns = 0
    /\ seen = {}
    /\ served = {}
    /\ first = <<>>
    /\ lastRun = NoRun
    /\ closed = {}
    /\ discarded = FALSE

\* a runner that is left alone
RunnerAtRest ==
    /\ eager = FALSE
    /\ fcts = [f \in Fcts |-> 0]
    /\ _graph_run_cache = <<>>
    /\ sessions = 0
    /\ nruns = 0
    /\ seen = {}
    /\ served = {}
    /\ first = <<>>
    /\ lastRun = NoRun
    /\ closed = {}
    /\ discarded = FALSE

\* a function object is created at an address no live object occupies
def_fct(f, i) ==
    /\ UNCHANGED <<builderVars, shapeVars, genVars>>
    /\ fcts[f] = 0
    /\ \A g \in Fcts : fcts[g] # i
    /\ fcts' = [fcts EXCEPT ![f] = i]
    /\ UNCHANGED <<eager, _graph_run_cache, sessions, nruns, seen, served,
                   first, lastRun, closed, discarded>>

\* a function object is collected; its address is free again
del_fct(f) ==
    /\ UNCHANGED <<builderVars, shapeVars, genVars>>
    /\ fcts[f] # 0
    /\ fcts' = [fcts EXCEPT ![f] = 0]
    /\ UNCHANGED <<eager, _graph_run_cache, sessions, nruns, seen, served,
                   first, lastRun, closed, discarded>>

\* TFGraphRunner._build_signature
_build_signature(fct, dtype, shape) == <<fcts[fct], dtype, shape>>

\* TFGraphRunner._build_graph_run, when run_args.fct(placeholder) returns
_build_graph_run(fct, dtype, shape) ==
    [fct |-> fct, dtype |-> dtype, shape |-> shape, session |-> sessions + 1]

\* line 81 with the cache never hit
NotCached_Always(signature, cache) == TRUE

\* run, line 81: the signature is not cached yet
NotCached(signature, cache) == signature \notin DOMAIN cache

\* run, line 83: self._graph_run_cache[signature] = graph_run
Store(cache, signature, graph_run) ==
    [k \in DOMAIN cache \cup {signature} |->
        IF k = signature THEN graph_run ELSE cache[k]]

\* what the run call is remembered by
Ran(fct, dtype, shape, outcome, used) ==
    LET triple == <<fcts[fct], dtype, shape>>
    IN  [fct |-> fct, id |-> fcts[fct], dtype |-> dtype, shape |-> shape,
         outcome |-> outcome,
         sizeBefore |-> Cardinality(DOMAIN _graph_run_cache),
         wasSeen |-> triple \in seen, wasServed |-> triple \in served,
         used |-> used]

\* lines 72-73 building and caching a graph run as deferred mode does
run_eager_Cached(fct, dtype, shape) ==
    /\ lastRun' = Ran(fct, dtype, shape, "eager", NoGraphRun)
    /\ _graph_run_cache' =
           Store(_graph_run_cache, _build_signature(fct, dtype, shape),
                 _build_graph_run(fct, dtype, shape))
    /\ sessions' = sessions + 1
    /\ UNCHANGED <<seen, served, first>>

\* run, lines 72-73: eager mode
run_eager(fct, dtype, shape) ==
    /\ lastRun' = Ran(fct, dtype, shape, "eager", NoGraphRun)
    /\ UNCHANGED <<_graph_run_cache, sessions, seen, served, first>>

\* run, lines 81-83 when fct raises on the placeholder: nothing is stored
run_build_raises(fct, dtype, shape) ==
    /\ lastRun' = Ran(fct, dtype, shape, "raised", NoGraphRun)
    /\ seen' = seen \cup {<<fcts[fct], dtype, shape>>}
    /\ UNCHANGED <<_graph_run_cache, sessions, served, first>>

\* run, lines 81-83 and 88-91: the graph is built, stored and executed
run_build(fct, dtype, shape) ==
    LET triple == <<fcts[fct], dtype, shape>>
        graph_run == _build_graph_run(fct, dtype, shape)
    IN  /\ _graph_run_cache' =
               Store(_graph_run_cache, _build_signature(fct, dtype, shape),
                     graph_run)
        /\ sessions' = sessions + 1
        /\ lastRun' = Ran(fct, dtype, shape, "built", graph_run)
        /\ seen' = seen \cup {triple}
        /\ served' = served \cup {triple}
        /\ first' = IF triple \in DOMAIN first THEN first
                    ELSE Store(first, triple, graph_run)

\* run, lines 84-91: the cached graph is executed
run_cached(fct, dtype, shape) ==
    LET triple == <<fcts[fct], dtype, shape>>
        graph_run == _graph_run_cache[_build_signature(fct, dtype, shape)]
    IN  /\ lastRun' = Ran(fct, dtype, shape, "cached", graph_run)
        /\ seen' = seen \cup {triple}
        /\ served' = served \cup {triple}
        /\ first' = IF triple \in DOMAIN first THEN first
                    ELSE Store(first, triple, graph_run)
        /\ UNCHANGED <<_graph_run_cache, sessions>>

\* TFGraphRunner.run(fct, input_), input_ an array of the dtype and shape
run(fct, dtype, shape) ==
    /\ UNCHANGED <<builderVars, shapeVars, genVars>>
    /\ fcts[fct] # 0
    /\ ~discarded
    /\ nruns < MaxRuns
    /\ nruns' = nruns + 1
    /\ UNCHANGED <<eager, fcts, closed, discarded>>
    /\ IF eager
       THEN run_eager(fct, dtype, shape)
       ELSE IF NotCached(_build_signature(fct, dtype, shape), _graph_run_cache)
            THEN \/ run_build(fct, dtype, shape)
                 \/ run_build_raises(fct, dtype, shape)
            ELSE run_cached(fct, dtype, shape)

\* __del__ leaving the loop after the first session
SessionsToClose_First(cache) ==
    IF DOMAIN cache = {} THEN {}
    ELSE {cache[CHOOSE k \in DOMAIN cache : TRUE].session}

\* __del__, lines 117-118: the sessions of the cached graph runs
SessionsToClose(cache) == {cache[k].session : k \in DOMAIN cache}

\* TFGraphRunner.__del__: the runner is discarded
__del__ ==
    /\ UNCHANGED <<builderVars, shapeVars, genVars>>
    /\ ~discarded
    /\ discarded' = TRUE
    /\ closed' = closed \cup SessionsToClose(_graph_run_cache)
    /\ UNCHANGED <<eager, fcts, _graph_run_cache, sessions, nruns, seen, served,
                   first, lastRun>>

RunnerNext ==
    \/ \E f \in Fcts : \E i \in Ids : def_fct(f, i)
    \/ \E f \in Fcts : del_fct(f)
    \/ __del__
    \/ \E f \in Fcts : \E d \in DTypes : \E sh \in InputShapes : run(f, d, sh)

\* --------------------------------------------------- assert_shape_match

\* None as a dimension
NoneDim == -1
Dims == {3, 64, NoneDim}

RECURSIVE TuplesUpTo(_)
TuplesUpTo(n) ==
    IF n = 0 THEN {<<>>}
    ELSE LET shorter == TuplesUpTo(n - 1)
         IN  shorter \cup {Append(sh, d) : sh \in {x \in shorter : Len(x) = n - 1},
                                            d \in Dims}

\* str(n) of an int n >= 0
RECURSIVE int_str(_)
int_str(n) ==
    IF n < 10 THEN <<48 + n>> ELSE int_str(n \div 10) \o <<48 + (n % 10)>>

\* repr of a dimension: an int or None
dim_repr(d) == IF d = NoneDim THEN <<78, 111, 110, 101>> ELSE int_str(d)

RECURSIVE join_reprs(_)
join_reprs(sh) ==
    IF Len(sh) = 1 THEN dim_repr(sh[1])
    ELSE dim_repr(sh[1]) \o <<44, 32>> \o join_reprs(Tail(sh))

\* '{}'.format(shape) of a tuple: "()", "(3,)", "(3, 64)"
tuple_repr(sh) ==
    IF sh = <<>> THEN <<40, 41>>
    ELSE IF Len(sh) = 1 THEN <<40>> \o dim_repr(sh[1]) \o <<44, 41>>
    ELSE <<40>> \o join_reprs(sh) \o <<41>>

\* assert_shape_match, lines 141-142
LengthMessage(s1, s2) ==
    <<83, 104, 97, 112, 101, 115, 32, 115, 104, 111, 117, 108, 100, 32, 104, 97, 118, 101, 32, 115, 97, 109, 101, 32, 108, 101, 110, 103, 116, 104, 58, 32>>
        \o int_str(Len(s1)) \o <<32, 45, 32>> \o int_str(Len(s2))

\* line 147 formatting shape1 twice
MismatchMessage_Shape1Twice(s1, s2) ==
    <<83, 104, 97, 112, 101, 32>> \o tuple_repr(s1)
        \o <<32, 100, 111, 32, 110, 111, 116, 32, 109, 97, 116, 99, 104, 32>>
        \o tuple_repr(s1)

\* assert_shape_match, line 147
MismatchMessage(s1, s2) ==
    <<83, 104, 97, 112, 101, 32>> \o tuple_repr(s1)
        \o <<32, 100, 111, 32, 110, 111, 116, 32, 109, 97, 116, 99, 104, 32>> \o tuple_repr(s2)

\* line 140 without the comparison of the lengths
LengthsDiffer_Never(s1, s2) == FALSE

\* assert_shape_match, line 140
LengthsDiffer(s1, s2) == Len(s1) # Len(s2)

\* assert_shape_match, lines 143-146: all(s1 == s2 for s1, s2 in zip(...)
\* if s2 is not None); zip stops at the shorter tuple
AllMatch(s1, s2) ==
    \A i \in 1..(IF Len(s1) < Len(s2) THEN Len(s1) ELSE Len(s2)) :
        s2[i] # NoneDim => s1[i] = s2[i]

ShapeInit ==
    /\ shape1 \in TuplesUpTo(MaxDims)
    /\ shape2 \in TuplesUpTo(MaxDims)
    /\ raised = "pending"
    /\ message = <<>>

\* no call of assert_shape_match is made
ShapeAtRest ==
    /\ shape1 = <<>>
    /\ shape2 = <<>>
    /\ raised = "pending"
    /\ message = <<>>

\* assert_shape_match(shape1, shape2)
assert_shape_match ==
    /\ UNCHANGED <<builderVars, runnerVars, genVars>>
    /\ raised = "pending"
    /\ IF LengthsDiffer(shape1, shape2)
       THEN raised' = "ValueError" /\ message' = LengthMessage(shape1, shape2)
       ELSE IF ~AllMatch(shape1, shape2)
            THEN /\ raised' = "ValueError"
                 /\ message' = MismatchMessage(shape1, shape2)
            ELSE raised' = "none" /\ message' = <<>>
    /\ UNCHANGED <<shape1, shape2>>

ShapeNext == assert_shape_match

\* ----------------------------------------------------- specifications

\* the builder's life cycle
Init == BuilderInit /\ RunnerAtRest /\ ShapeAtRest /\ GenAtRest
Next == BuilderNext
Spec == Init /\ [][Next]_vars

\* the graph runner
InitRunner == BuilderAtRest /\ RunnerInit /\ ShapeAtRest /\ GenAtRest
NextRunner == RunnerNext
SpecRunner == InitRunner /\ [][NextRunner]_vars

\* assert_shape_match on every pair of shapes
InitShape == BuilderAtRest /\ RunnerAtRest /\ ShapeInit /\ GenAtRest
NextShape == ShapeNext
SpecShape == InitShape /\ [][NextShape]_vars

\* the generator-based builder: the loop of the hook, the split files and
\* as_dataset, on a builder inside its first call, after it, or never prepared
InitGen ==
    /\ BuilderInHook \/ BuilderPrepared \/ BuilderAtRest
    /\ RunnerAtRest
    /\ ShapeAtRest
    /\ GenInit
NextGen == GenNext
SpecGen == InitGen /\ [][NextGen]_vars

\* ------------------------------------------------------------- claims

\* C1: a builder constructed on a root with no version directory, prepared
\* twice with REUSE_DATASET_IF_EXISTS, the first call succeeding: the second
\* call is short-circuited, does not invoke the hook, changes neither the
\* directory listing nor _data_dir, and exactly one version directory exists.
C1_Idempotent ==
    ( /\ pc = "idle"
      /\ ncalls = 2
      /\ prev.nBefore = 0
      /\ prev.mode = "REUSE_DATASET_IF_EXISTS"
      /\ prev.outcome = "ok"
      /\ last.mode = "REUSE_DATASET_IF_EXISTS" )
    => /\ last.outcome = "reused"
       /\ ~last.hook
       /\ last.fsSame
       /\ last.ddSame
       /\ Cardinality({f \in fs : ~Contains(IncompleteMarker, f)}) = 1

C1_Witness ==
    /\ pc = "idle"
    /\ ncalls = 2
    /\ prev.nBefore = 0
    /\ prev.mode = "REUSE_DATASET_IF_EXISTS"
    /\ prev.outcome = "ok"
    /\ last.mode = "REUSE_DATASET_IF_EXISTS"
    /\ last.outcome = "reused"

\* C2: after a call whose hook raised, no directory exists at the final
\* version path the call targeted.
C2_Atomic ==
    (pc = "idle" /\ last.outcome = "raised")
    => Basename(last.target) \notin fs

\* C3: the call that follows an interrupted call which left its .incomplete
\* directory invokes the hook again, whatever the manager's mode.
C3_Regenerates ==
    ( /\ pc = "idle"
      /\ prev.outcome = "raised"
      /\ prev.incompleteLeft
      /\ last.outcome \in {"reused", "ok", "raised"} )
    => last.hook

\* C4: a builder just constructed has as _data_dir the path of the
\* lexicographically last entry whose name does not contain ".incomplete",
\* and None when the directory does not exist or holds no such entry.
C4_VersionResolution ==
    (pc = "idle" /\ ncalls = 0)
    => LET valid == {f \in fs : ~Contains(IncompleteMarker, f)}
       IN  IF rootExists /\ valid # {}
           THEN \E f \in valid :
                  /\ _data_dir = _data_dir_root \o <<47>> \o name \o <<47>> \o f
                  /\ \A g \in valid : g = f \/ StrLess(g, f)
                  /\ ~Contains(IncompleteMarker, _data_dir)
           ELSE _data_dir = NoneVal

\* a second builder resolves among two versions while a later-sorting
\* .incomplete entry is present
C4_Witness ==
    /\ pc = "idle"
    /\ ncalls = 0
    /\ builders = 1
    /\ Cardinality({f \in fs : ~Contains(IncompleteMarker, f)}) >= 2
    /\ \E f \in fs :
         /\ Contains(IncompleteMarker, f)
         /\ \A g \in fs : g = f \/ StrLess(g, f)

\* C5: while the hook runs _data_dir is the .incomplete sibling of the target;
\* it is the target once the hook has returned, and it is not the target
\* after the hook raised.
C5_Exposure ==
    /\ pc = "hook" =>
         /\ _data_dir = cur.target \o IncompleteMarker
         /\ _data_dir # cur.target
    /\ (pc = "idle" /\ last.outcome = "ok") => _data_dir = last.target
    /\ (pc = "idle" /\ last.outcome = "raised") => _data_dir # last.target

C5_Witness ==
    /\ pc = "idle"
    /\ last.outcome = "raised"
    /\ prev.outcome = "ok"

\* C6: a call given both a cache directory and a download manager ends
\* with ValueError, and has invoked no hook, constructed no manager and
\* changed neither the directory listing nor _data_dir.
C6_ConflictingArguments ==
    ( /\ pc = "idle"
      /\ last.outcome # "none"
      /\ last.cache_dir \notin {NoneVal, <<>>}
      /\ last.dl_manager # "None" )
    => /\ last.outcome = "ValueError"
       /\ ~last.hook
       /\ ~last.dmBuilt
       /\ last.fsSame
       /\ last.ddSame

C6_Witness ==
    /\ pc = "idle"
    /\ last.outcome = "ValueError"
    /\ last.cache_dir = SomeCacheDir
    /\ last.dl_manager = "REUSE_DATASET_IF_EXISTS"
    /\ fs # {}

\* C8: a call that is not short-circuited targets a version path at which no
\* directory exists yet, and when it succeeds there is exactly one version
\* directory more than before it.
C8_NewVersion ==
    /\ pc = "hook" => Basename(cur.target) \notin fs
    /\ (pc = "idle" /\ last.outcome = "ok") =>
         Cardinality({f \in fs : ~Contains(IncompleteMarker, f)})
             = last.nBefore + 1

\* C7 (as amended): in deferred mode the cache holds exactly one execution
\* context per (function identity, dtype, shape) of a run that had one: a run
\* whose signature is cached uses the cached context and does not grow the
\* cache, a run with a new signature adds exactly one entry when its graph is
\* built and none when fct raises while it is built, and every entry is
\* still the context first built for it.
C7_Memoization ==
    ~eager =>
      /\ DOMAIN _graph_run_cache = served
      /\ \A t \in served : _graph_run_cache[t] = first[t]
      /\ lastRun.wasServed => lastRun.outcome = "cached"
      /\ lastRun.outcome = "cached" =>
           /\ lastRun.wasServed
           /\ Cardinality(DOMAIN _graph_run_cache) = lastRun.sizeBefore
           /\ lastRun.used = first[<<lastRun.id, lastRun.dtype, lastRun.shape>>]
      /\ lastRun.outcome = "built" =>
           /\ ~lastRun.wasServed
           /\ Cardinality(DOMAIN _graph_run_cache) = lastRun.sizeBefore + 1
      /\ lastRun.outcome = "raised" =>
           /\ ~lastRun.wasServed
           /\ Cardinality(DOMAIN _graph_run_cache) = lastRun.sizeBefore

\* a cached context is reused after another run's fct raised during its build
C7_Witness ==
    /\ ~eager
    /\ lastRun.outcome = "cached"
    /\ seen # served

\* C7 (as stated): in deferred mode the cache holds exactly one execution
\* context per distinct signature seen so far, and a run with a signature not
\* seen before adds exactly one entry.
C7_Original ==
    ~eager =>
      /\ DOMAIN _graph_run_cache = seen
      /\ (lastRun.outcome # "none" /\ ~lastRun.wasSeen) =>
           Cardinality(DOMAIN _graph_run_cache) = lastRun.sizeBefore + 1

\* C9: assert_shape_match succeeds exactly when the shapes have the same
\* length and shape1 has shape2's value wherever shape2 is not None, and
\* raises ValueError otherwise.
C9_ShapeMatch ==
    raised # "pending" =>
      /\ raised \in {"none", "ValueError"}
      /\ raised = "none" <=>
           /\ Len(shape1) = Len(shape2)
           /\ \A i \in 1..Len(shape2) :
                shape2[i] # NoneDim => shape1[i] = shape2[i]

\* assert_shape_match((64, 64, 3), (None, None, 3)) succeeds
C9_Witness ==
    /\ raised = "none"
    /\ shape1 = <<64, 64, 3>>
    /\ shape2 = <<NoneDim, NoneDim, 3>>

\* C10 (as amended): a failure caused by differing dimension values carries
\* both shapes in its message; a failure caused by differing numbers of
\* dimensions carries the two lengths, and neither shape.
C10_Messages ==
    raised = "ValueError" =>
      IF Len(shape1) = Len(shape2)
      THEN /\ Contains(tuple_repr(shape1), message)
           /\ Contains(tuple_repr(shape2), message)
      ELSE /\ Contains(int_str(Len(shape1)), message)
           /\ Contains(int_str(Len(shape2)), message)
           /\ ~Contains(tuple_repr(shape1), message)
           /\ ~Contains(tuple_repr(shape2), message)

\* assert_shape_match((64, 64, 3), (64, 64, 64)) fails on the last dimension
C10_Witness ==
    /\ raised = "ValueError"
    /\ shape1 = <<64, 64, 3>>
    /\ shape2 = <<64, 64, 64>>

\* C10 (as stated): every failure carries both shapes in its message.
C10_Original ==
    raised = "ValueError" =>
      /\ Contains(tuple_repr(shape1), message)
      /\ Contains(tuple_repr(shape2), message)

\* C11: the shuffle flag as_dataset gives to the record-stream assembly is
\* the shuffle_files argument when it is True or False, and otherwise is
\* true for TRAIN and false for VALIDATION and TEST.
C11_ShuffleDefault ==
    read.built.called =>
      /\ read.shuffle_files = "True" => read.built.shuffle_files
      /\ read.shuffle_files = "False" => ~read.built.shuffle_files
      /\ read.shuffle_files = "None" =>
           (read.built.shuffle_files <=>
              read.split = <<116, 114, 97, 105, 110>>)

\* as_dataset(split=VALIDATION) without shuffle_files does not shuffle
C11_Witness ==
    /\ read.built.called
    /\ read.shuffle_files = "None"
    /\ read.split = VALIDATION
    /\ ~read.built.shuffle_files

\* C12: once the runner is discarded every session it created is closed.
C12_Teardown ==
    discarded => closed = 1..sessions

\* a runner that built two graph runs is discarded
C12_Witness ==
    /\ discarded
    /\ sessions >= 2
    /\ closed = 1..sessions

\* C19: in eager mode every run call applies fct directly; the cache stays
\* empty and no session is created, whatever the number of calls.
C19_EagerFrame ==
    eager =>
      /\ _graph_run_cache = <<>>
      /\ sessions = 0
      /\ lastRun.outcome \in {"none", "eager"}
      /\ lastRun.sizeBefore = 0

\* three eager runs were made
C19_Witness ==
    /\ eager
    /\ nruns = 3
    /\ lastRun.outcome = "eager"
    /\ _graph_run_cache = <<>>

C14_GeneratorPrepare ==
    gpc # "idle" =>
      /\ Len(visits) <= Len(split_generators)
      /\ gpc = "loop" => Len(visits) = gi - 1
      /\ gpc = "returned" => Len(visits) = Len(split_generators)
      /\ \A k \in DOMAIN writes :
           /\ writes[k].at \in DOMAIN visits
           /\ writes[k].call.generator_fn
                  = split_generators[writes[k].at].generator_fn
           /\ writes[k].call.output_files
                  = output_files(split_generators[writes[k].at]).value
           /\ \A l \in DOMAIN writes : k < l => writes[k].at < writes[l].at
      /\ \A i \in DOMAIN visits :
           Cardinality({k \in DOMAIN writes : writes[k].at = i})
               = IF visits[i].existed THEN 0 ELSE 1

\* the hook returned after it skipped its first generator and wrote the
\* second
C14_Witness ==
    /\ gpc = "returned"
    /\ Len(visits) = 2
    /\ visits[1].existed
    /\ ~visits[2].existed
    /\ Len(writes) = 1
    /\ writes[1].at = 2

\* C17: output_files_exist() of a visited generator was true exactly when
\* exists() was true of every one of its split files; a generator of which
\* one split file was missing was not skipped.
C17_OutputFilesExist ==
    \A i \in DOMAIN visits :
      /\ visits[i].existed <=>
           \A j \in DOMAIN visits[i].each : visits[i].each[j]
      /\ (\E j \in DOMAIN visits[i].each : ~visits[i].each[j]) =>
           \E k \in DOMAIN writes : writes[k].at = i

\* a generator was written of which some split files existed and some not
C17_Witness ==
    \E i \in DOMAIN visits :
      /\ \E j \in DOMAIN visits[i].each : visits[i].each[j]
      /\ \E j \in DOMAIN visits[i].each : ~visits[i].each[j]
      /\ \E k \in DOMAIN writes : writes[k].at = i

\* C18: the output_files handed to write_from_generator are the file paths
\* of the generator's split files, one split file after the other in the
\* order of split_files: as many as the shard counts add up to, shard k of
\* split file j standing after all shards of the split files before j and
\* after the shards before k of j; splits lists the split of each split
\* file in the same order.
C18_OutputFilesOrder ==
    \A w \in DOMAIN writes :
      LET sg == split_generators[writes[w].at]
          out == writes[w].call.output_files
          shards == {<<j, k>> \in (DOMAIN sg.split_files) \X (1..MaxShards) :
                       k <= sg.split_files[j].num_shards}
          before(j, k) == {jk \in shards :
                             jk[1] < j \/ (jk[1] = j /\ jk[2] < k)}
      IN  /\ Len(out) = Cardinality(shards)
          /\ \A jk \in shards :
               out[Cardinality(before(jk[1], jk[2])) + 1]
                   = filepaths(sg.split_files[jk[1]]).value[jk[2]]
          /\ Len(splits(sg)) = Len(sg.split_files)
          /\ \A j \in DOMAIN sg.split_files :
               splits(sg)[j] = sg.split_files[j].split

\* one generator was written across TRAIN (two shards), VALIDATION and TEST
C18_Witness ==
    /\ Len(writes) = 1
    /\ Len(writes[1].call.output_files) = 4
    /\ splits(split_generators[1]) = <<TRAIN, VALIDATION, TEST>>

\* C15: every output file path the hook hands to write_from_generator lies
\* under the .incomplete sibling of the call's target, not under the target
\* and not under any version directory; no version directory appears while
\* the hook runs, nor when it raises.
C15_UnderIncomplete ==
    LET Under(path, dir) ==
            /\ Len(path) > Len(dir) + 1
            /\ SubSeq(path, 1, Len(dir) + 1) = dir \o <<47>>
    IN  /\ pc = "hook" =>
             /\ \A c \in DOMAIN cur.handed :
                  \A i \in DOMAIN cur.handed[c].output_files :
                    LET path == cur.handed[c].output_files[i]
                    IN  /\ Under(path, cur.target \o IncompleteMarker)
                        /\ ~Under(path, cur.target)
                        /\ \A f \in fs :
                             ~Contains(IncompleteMarker, f) =>
                               ~Under(path, _data_dir_root \o <<47>> \o name
                                                \o <<47>> \o f)
             /\ {f \in fs : ~Contains(IncompleteMarker, f)}
                    = {f \in cur.fsBefore : ~Contains(IncompleteMarker, f)}
        /\ (pc = "idle" /\ last.outcome = "raised") =>
             Cardinality({f \in fs : ~Contains(IncompleteMarker, f)})
                 = last.nBefore

\* the hook wrote both of its generators while an older version exists
C15_Witness ==
    /\ pc = "hook"
    /\ hookStep = "written"
    /\ Len(cur.handed) = 2
    /\ OldVersion \in fs

\* C16: a download_and_prepare call invokes the hook at most once, exactly
\* once when it is not short-circuited; when the hook raises the call ends
\* with that error and the hook was invoked once.
C16_NoRetry ==
    /\ pc = "hook" => cur.hooks = 1
    /\ pc = "idle" =>
         /\ last.hooks <= 1
         /\ last.outcome \in {"ok", "raised"} => last.hooks = 1
         /\ last.outcome \in {"reused", "ValueError"} => last.hooks = 0
         /\ last.outcome = "raised" => last.propagated

\* two calls in a row ended with the error of their hook
C16_Witness ==
    /\ pc = "idle"
    /\ last.outcome = "raised"
    /\ last.hooks = 1
    /\ last.propagated
    /\ prev.outcome = "raised"

\* C20: whenever no call is in progress, _data_dir is None or a path without
\* the .incomplete marker, and the file pattern as_dataset reads does not
\* lie in an .incomplete directory.
C20_DataDirComplete ==
    pc = "idle" =>
      /\ _data_dir = NoneVal \/ ~Contains(IncompleteMarker, _data_dir)
      /\ \A split \in Split :
           LET built == _as_dataset(_data_dir, split, "None")
           IN  built.called => ~Contains(IncompleteMarker, built.filepattern)

\* C21: in deferred mode the execution context a run call computes its
\* result with was built from the fct of that call, with the dtype and the
\* shape of its input.
C21_CacheSound ==
    (~eager /\ lastRun.outcome \in {"built", "cached"}) =>
      /\ lastRun.used.fct = lastRun.fct
      /\ lastRun.used.dtype = lastRun.dtype
      /\ lastRun.used.shape = lastRun.shape

\* C22: after a download_and_prepare call returned without an error, having
\* generated the dataset or reused it, on a root that holds only version
\* directories, _data_dir is the path _get_data_dir() resolves in the
\* directory as it then is: the one a builder constructed at that moment
\* gets. (The clock of the model never goes back.)
C22_Agreement ==
    ( /\ pc = "idle"
      /\ last.outcome \in {"ok", "reused"}
      /\ \A f \in fs : ~Contains(IncompleteMarker, f) )
    => _data_dir = _get_data_dir(NoneVal, rootExists, fs)

====
